---- MODULE Spec2Model ----
(***************************************************************************)
(* Model of the ett-summary collection server (server-rs/src/main.rs):     *)
(* concurrent upload_audio request tasks, the shared whisper context       *)
(* mutex, the `state` table of the database, the completion API, the       *)
(* webhook and the background flush_task; and of the capture client        *)
(* (client/src/main.rs): the device callback, the bounded relay channel,   *)
(* batch_and_send and send_wav.                                            *)
(*                                                                         *)
(* Text is a sequence of tokens; the placeholders of the prompt and        *)
(* webhook templates are tokens of their own, and str::replace is          *)
(* token-wise substitution.                                                *)
(***************************************************************************)
EXTENDS Integers, Sequences, FiniteSets, TLC

\* ---------------------------------------------------------------- bounds
NumTasks == 2          \* concurrent upload requests
MaxNow == 3600         \* last instant of the modelled clock (seconds)
MaxSamples == 8        \* samples the device hands to the callback
RelayCapacity == 4     \* stands for mpsc::channel(44100 * 2 * 300)
ChunkSamples == 3      \* stands for total_samples = 44100 * 2 * 30

Tasks == 1..NumTasks

\* ------------------------------------------------------ program constants
OK == 200
BAD_REQUEST == 400
INTERNAL_SERVER_ERROR == 500
FlushAfter == 3600     \* chrono::Duration::seconds(3600)

\* ------------------------------------------------------------------ text
PhSummary == "{summary}"
PhTranscription == "{transcription}"

RECURSIVE Replace(_, _, _)
\* str::replace(from, to): every occurrence of the placeholder is replaced.
Replace(s, from, to) ==
    IF s = <<>> THEN <<>>
    ELSE (IF Head(s) = from THEN to ELSE <<Head(s)>>) \o Replace(Tail(s), from, to)

\* x occurs in s as a contiguous run of tokens
Contains(s, x) ==
    \E i \in 0..(Len(s) - Len(x)) : SubSeq(s, i + 1, i + Len(x)) = x

\* ---------------------------------------------------------------- config
\* cfg.systems: one configured system, with the prompts of the template
initial_prompt == <<"Summarize this transcription:", PhTranscription>>
update_prompt ==
    <<"Here is text summary:", PhSummary,
      "Please update this summary with new information from this transcription:",
      PhTranscription>>
ConfigKeys == {"s1"}
webhook_template == <<"summary=", PhSummary>>
WebhookUrls == {"", "https://example.com/webhook"}

\* rows of the `state` table: the configured systems, and a row left by an
\* earlier configuration (the table outlives the process; rows are never
\* deleted)
StateKeys == ConfigKeys \cup {"old"}

\* ---------------------------------------------------------------- inputs
\* Option: None, and Some(x) as the set holding x
None == {}
Some(x) == {x}
\* the multipart "file" part: bytes with a WAV header (riff) of some format,
\* or bytes that hound cannot read
Files == { [riff |-> TRUE, channels |-> 1, sample_rate |-> 16000],
           [riff |-> TRUE, channels |-> 2, sample_rate |-> 16000],
           [riff |-> TRUE, channels |-> 1, sample_rate |-> 44100],
           [riff |-> FALSE, channels |-> 0, sample_rate |-> 0] }
\* the "system_key" part
RequestKeys == StateKeys \cup {"nokey"}
\* what whisper returns for a chunk
Transcripts == { <<"hello world">>, <<"more info">> }
\* what the completion API returns as message content (trimmed)
Completions == { <<>>, <<"Summary A">>, <<"see", PhTranscription>> }

VARIABLES
    \* ---- server
    db,           \* table state: system_key -> [summary, last_received]
    now,          \* NOW() / Utc::now()
    lock,         \* holder of the Mutex<SharedState>, 0 when free
    req,          \* per upload task: position and locals of upload_audio
    webhook_url,  \* cfg.webhook_url
    inferences,   \* per task: runs of whisper full() on the shared context
    api_calls,    \* per task: prompts posted to the completion API
    webhooks,     \* per task: payloads posted to the webhook
    flush_pc,     \* flush_task: "tick" (waiting for the interval) or "rows"
    rows,         \* flush_task: rows of the SELECT still to visit
    \* ---- client
    stream,       \* capture_audio: the cpal stream, "playing" or "dropped"
    produced,     \* samples the device has handed to write_input_data
    relay,        \* the mpsc channel: samples sent and not yet received
    client_pc,    \* batch_and_send: "recv", "write", "send", "await" (the
                  \* response), or what main returned: "Ok", "Err(..)"
    buffer,       \* batch_and_send: the in-progress buffer
    received,     \* samples rx.recv() has returned
    emitted,      \* the chunks handed to write_wav, in order
    files,        \* chunk files on disk (by number of the chunk)
    attempts,     \* the outcome of each POST of send_wav, in order
    served        \* the upload_audio tasks that read the client's requests

vars == <<db, now, lock, req, webhook_url, inferences, api_calls, webhooks,
          flush_pc, rows>>

cvars == <<stream, produced, relay, client_pc, buffer, received, emitted,
           files, attempts, served>>

allvars == <<vars, cvars>>

NewRequest ==
    [pc |-> "idle", data |-> None, system_key |-> None, transcription |-> <<>>,
     current_summary |-> <<>>, prompt |-> <<>>, sum |-> <<>>, status |-> 0]

\* main: the rows inserted at bootstrap (summary '', last_received NOW());
\* the row of the earlier configuration still holds its summary.
Init ==
    /\ now = 0
    /\ db = [k \in StateKeys |->
                [summary |-> IF k \in ConfigKeys THEN <<>> ELSE <<"Summary A">>,
                 last_received |-> 0]]
    /\ lock = 0
    /\ req = [t \in Tasks |-> NewRequest]
    /\ webhook_url \in WebhookUrls
    /\ inferences = [t \in Tasks |-> 0]
    /\ api_calls = [t \in Tasks |-> <<>>]
    /\ webhooks = [t \in Tasks |-> <<>>]
    /\ flush_pc = "tick"
    /\ rows = {}

\* (mutant of Return) the guard is not dropped with the frame
ReturnKeepsLock(t, code) ==
    /\ req' = [req EXCEPT ![t] = [NewRequest EXCEPT !.pc = "done",
                                                    !.data = req[t].data,
                                                    !.system_key = req[t].system_key,
                                                    !.status = code]]
    /\ lock' = lock

\* return <code>: the response; the locals of the frame are dropped, and a
\* held MutexGuard with them (the request and its status stay on record)
Return(t, code) ==
    /\ req' = [req EXCEPT ![t] = [NewRequest EXCEPT !.pc = "done",
                                                    !.data = req[t].data,
                                                    !.system_key = req[t].system_key,
                                                    !.status = code]]
    /\ lock' = IF lock = t THEN 0 ELSE lock

\* upload_audio, the multipart loop and the two matches on data and sys_key,
\* for a request whose "file" part is d and whose "system_key" part is k
ReadMultipartOf(t, d, k) ==
    /\ req[t].pc = "idle"
    /\ IF d = None \/ k = None
       THEN req' = [req EXCEPT ![t].pc = "done", ![t].data = d,
                               ![t].system_key = k, ![t].status = BAD_REQUEST]
       ELSE req' = [req EXCEPT ![t].pc = "lock", ![t].data = d,
                               ![t].system_key = k]
    /\ UNCHANGED <<db, now, lock, webhook_url, inferences, api_calls, webhooks,
                   flush_pc, rows>>

\* a request of any shape arrives
ReadMultipart(t) ==
    \E d \in {None} \cup {Some(f) : f \in Files},
       k \in {None} \cup {Some(x) : x \in RequestKeys} :
        ReadMultipartOf(t, d, k)

\* (mutant of AcquireLock) the lock is taken without waiting for its holder
AcquireLockNoWait(t) ==
    /\ req[t].pc = "lock"
    /\ lock' = t
    /\ req' = [req EXCEPT ![t].pc = "touch"]
    /\ UNCHANGED <<db, now, webhook_url, inferences, api_calls, webhooks,
                   flush_pc, rows>>

\* let mut s = state.lock().await
AcquireLock(t) ==
    /\ req[t].pc = "lock"
    /\ lock = 0
    /\ lock' = t
    /\ req' = [req EXCEPT ![t].pc = "touch"]
    /\ UNCHANGED <<db, now, webhook_url, inferences, api_calls, webhooks,
                   flush_pc, rows>>

\* UPDATE state SET last_received = NOW() WHERE system_key=$1
\* (no row matching is not an error; a failed statement returns 500)
TouchLastReceived(t) ==
    /\ req[t].pc = "touch"
    /\ \/ /\ db' = [k \in StateKeys |->
                      IF Some(k) = req[t].system_key
                      THEN [db[k] EXCEPT !.last_received = now] ELSE db[k]]
          /\ req' = [req EXCEPT ![t].pc = "transcribe"]
          /\ UNCHANGED lock
       \/ /\ Return(t, INTERNAL_SERVER_ERROR)
          /\ UNCHANGED db
    /\ UNCHANGED <<now, webhook_url, inferences, api_calls, webhooks,
                   flush_pc, rows>>

\* transcribe_wav up to the format check
FormatOk(data) ==
    \E d \in data : d.riff /\ d.channels = 1 /\ d.sample_rate = 16000

\* transcribe_wav is entered: WavReader::new and the check of the header;
\* Err is answered with 400 by upload_audio
TranscribeWav(t) ==
    /\ req[t].pc = "transcribe"
    /\ IF FormatOk(req[t].data)
       THEN /\ req' = [req EXCEPT ![t].pc = "infer"]
            /\ inferences' = [inferences EXCEPT ![t] = @ + 1]
            /\ UNCHANGED lock
       ELSE /\ Return(t, BAD_REQUEST)
            /\ UNCHANGED inferences
    /\ UNCHANGED <<db, now, webhook_url, api_calls, webhooks, flush_pc, rows>>

\* the inference on state.ctx returns: the text, or an error (answered 400);
\* on Ok, drop(s) releases the mutex
WhisperFull(t) ==
    /\ req[t].pc = "infer"
    /\ \/ \E text \in Transcripts :
            /\ req' = [req EXCEPT ![t].pc = "select", ![t].transcription = text]
            /\ lock' = 0
       \/ Return(t, BAD_REQUEST)
    /\ UNCHANGED <<db, now, webhook_url, inferences, api_calls, webhooks,
                   flush_pc, rows>>

\* the prompt of lines 244-253
BuildPrompt(current_summary, transcription) ==
    IF current_summary = <<>>
    THEN Replace(initial_prompt, PhTranscription, transcription)
    ELSE Replace(Replace(update_prompt, PhSummary, current_summary),
                 PhTranscription, transcription)

\* SELECT summary FROM state WHERE system_key=$1 (query_one: an error, also
\* when no row matches), the lookup of the system's prompts, the prompt
SelectSummary(t) ==
    /\ req[t].pc = "select"
    /\ \/ \E k \in StateKeys :
            /\ req[t].system_key = Some(k)
            /\ IF k \in ConfigKeys
               THEN /\ req' = [req EXCEPT
                          ![t].pc = "summarize",
                          ![t].current_summary = db[k].summary,
                          ![t].prompt = BuildPrompt(db[k].summary, req[t].transcription)]
                    /\ UNCHANGED lock
               ELSE Return(t, BAD_REQUEST)
       \/ Return(t, INTERNAL_SERVER_ERROR)
    /\ UNCHANGED <<db, now, webhook_url, inferences, api_calls, webhooks,
                   flush_pc, rows>>

\* (mutant of SummarizeText) an Err of the Summarizer resets the stored summary
SummarizeTextClobber(t) ==
    /\ req[t].pc = "summarize"
    /\ api_calls' = [api_calls EXCEPT ![t] = Append(@, req[t].prompt)]
    /\ \/ /\ \E content \in Completions :
               req' = [req EXCEPT ![t].pc = "store", ![t].sum = content]
          /\ UNCHANGED <<db, lock>>
       \/ /\ Return(t, INTERNAL_SERVER_ERROR)
          /\ db' = [k \in StateKeys |->
                      IF Some(k) = req[t].system_key
                      THEN [db[k] EXCEPT !.summary = <<>>] ELSE db[k]]
    /\ UNCHANGED <<now, webhook_url, inferences, webhooks, flush_pc, rows>>

\* summarize_text: one POST of the prompt; Ok(content) or Err
SummarizeText(t) ==
    /\ req[t].pc = "summarize"
    /\ api_calls' = [api_calls EXCEPT ![t] = Append(@, req[t].prompt)]
    /\ \/ /\ \E content \in Completions :
               req' = [req EXCEPT ![t].pc = "store", ![t].sum = content]
          /\ UNCHANGED lock
       \/ Return(t, INTERNAL_SERVER_ERROR)
    /\ UNCHANGED <<db, now, webhook_url, inferences, webhooks, flush_pc, rows>>

\* let _ = UPDATE state SET summary=$1 WHERE system_key=$2 (result ignored)
StoreSummary(t) ==
    /\ req[t].pc = "store"
    /\ \/ db' = [k \in StateKeys |->
                   IF Some(k) = req[t].system_key
                   THEN [db[k] EXCEPT !.summary = req[t].sum] ELSE db[k]]
       \/ UNCHANGED db
    /\ req' = [req EXCEPT ![t].pc = "webhook"]
    /\ UNCHANGED <<now, lock, webhook_url, inferences, api_calls, webhooks,
                   flush_pc, rows>>

\* post_webhook, then StatusCode::OK
PostWebhook(t) ==
    /\ req[t].pc = "webhook"
    /\ webhooks' = IF webhook_url = "" THEN webhooks
                   ELSE [webhooks EXCEPT ![t] =
                           Append(@, Replace(webhook_template, PhSummary, req[t].sum))]
    /\ Return(t, OK)
    /\ UNCHANGED <<db, now, webhook_url, inferences, api_calls, flush_pc, rows>>

\* flush_task: the interval fires and the table is read (an error skips the
\* pass)
FlushSelect ==
    /\ flush_pc = "tick"
    /\ \/ /\ rows' = { [key |-> k, summary |-> db[k].summary,
                        last_received |-> db[k].last_received] : k \in StateKeys }
          /\ flush_pc' = "rows"
       \/ UNCHANGED <<rows, flush_pc>>
    /\ UNCHANGED <<db, now, lock, req, webhook_url, inferences, api_calls, webhooks>>

\* the condition of lines 282-284 on a row as it was read
Stale(row) ==
    /\ row.summary /= <<>>
    /\ now - row.last_received >= FlushAfter

\* (mutant of FlushRow) the UPDATE has no WHERE clause: every row is cleared
FlushRowEveryKey ==
    /\ flush_pc = "rows"
    /\ \E row \in rows :
         /\ IF Stale(row)
            THEN \/ db' = [k \in StateKeys |-> [db[k] EXCEPT !.summary = <<>>]]
                 \/ UNCHANGED db
            ELSE UNCHANGED db
         /\ rows' = rows \ {row}
         /\ flush_pc' = IF rows' = {} THEN "tick" ELSE "rows"
    /\ UNCHANGED <<now, lock, req, webhook_url, inferences, api_calls, webhooks>>

\* flush_task: the body of the loop for one row; the result of the UPDATE is
\* ignored
FlushRow ==
    /\ flush_pc = "rows"
    /\ \E row \in rows :
         /\ IF Stale(row)
            THEN \/ db' = [db EXCEPT ![row.key].summary = <<>>]
                 \/ UNCHANGED db
            ELSE UNCHANGED db
         /\ rows' = rows \ {row}
         /\ flush_pc' = IF rows' = {} THEN "tick" ELSE "rows"
    /\ UNCHANGED <<now, lock, req, webhook_url, inferences, api_calls, webhooks>>

\* the instants the clock is observed at: each multiple of the threshold and
\* the second before it
Instants == { i \in 0..MaxNow : i % FlushAfter \in {0, FlushAfter - 1} }

\* the wall clock advances
AdvanceTime ==
    /\ \E i \in Instants :
         /\ i > now
         /\ now' = i
    /\ UNCHANGED <<db, lock, req, webhook_url, inferences, api_calls, webhooks,
                   flush_pc, rows>>

\* ---------------------------------------------------------------- client
ClientInit ==
    /\ stream = "playing"
    /\ produced = 0
    /\ relay = <<>>
    /\ client_pc = "recv"
    /\ buffer = <<>>
    /\ received = 0
    /\ emitted = <<>>
    /\ files = {}
    /\ attempts = <<>>
    /\ served = <<>>

\* the client process runs: main has not returned Ok(()) or an Err
Running == client_pc \in {"recv", "write", "send", "await"}

\* (mutant of TrySend) the callback waits for room in the relay
TrySendBlocking ==
    /\ Running /\ stream = "playing"
    /\ produced < MaxSamples
    /\ Len(relay) < RelayCapacity
    /\ produced' = produced + 1
    /\ relay' = Append(relay, produced + 1)
    /\ UNCHANGED <<stream, client_pc, buffer, received, emitted, files, attempts, served>>
    /\ UNCHANGED vars

\* write_input_data, one sample of the callback's block: writer.try_send(sample).ok()
\* (a sample is named by its position in the device's stream)
TrySend ==
    /\ Running /\ stream = "playing"
    /\ produced < MaxSamples
    /\ produced' = produced + 1
    /\ relay' = IF Len(relay) < RelayCapacity
                THEN Append(relay, produced + 1) ELSE relay
    /\ UNCHANGED <<stream, client_pc, buffer, received, emitted, files, attempts, served>>
    /\ UNCHANGED vars

\* capture_audio: the sleep ends and the stream, with the Sender, is dropped
DropStream ==
    /\ Running /\ stream = "playing"
    /\ stream' = "dropped"
    /\ UNCHANGED <<produced, relay, client_pc, buffer, received, emitted, files, attempts, served>>
    /\ UNCHANGED vars

\* (mutant of Recv) the threshold is tested with > in place of >=
RecvGreater ==
    /\ client_pc = "recv"
    /\ relay /= <<>>
    /\ relay' = Tail(relay)
    /\ received' = received + 1
    /\ buffer' = Append(buffer, Head(relay))
    /\ IF Len(buffer') > ChunkSamples
       THEN /\ emitted' = Append(emitted, buffer')
            /\ client_pc' = "write"
       ELSE UNCHANGED <<emitted, client_pc>>
    /\ UNCHANGED <<stream, produced, files, attempts, served>>
    /\ UNCHANGED vars

\* batch_and_send: rx.recv() returns a sample, buffer.push, the threshold test
Recv ==
    /\ client_pc = "recv"
    /\ relay /= <<>>
    /\ relay' = Tail(relay)
    /\ received' = received + 1
    /\ buffer' = Append(buffer, Head(relay))
    /\ IF Len(buffer') >= ChunkSamples
       THEN /\ emitted' = Append(emitted, buffer')
            /\ client_pc' = "write"
       ELSE UNCHANGED <<emitted, client_pc>>
    /\ UNCHANGED <<stream, produced, files, attempts, served>>
    /\ UNCHANGED vars

\* batch_and_send: rx.recv() returns None (channel empty, Sender dropped)
RecvClosed ==
    /\ client_pc = "recv"
    /\ relay = <<>> /\ stream = "dropped"
    /\ client_pc' = "Ok"
    /\ UNCHANGED <<stream, produced, relay, buffer, received, emitted, files, attempts, served>>
    /\ UNCHANGED vars

\* write_wav(&filename, &buffer, spec)?: the file is written, or the error
\* ends batch_and_send and main
WriteWav ==
    /\ client_pc = "write"
    /\ \/ /\ files' = files \cup {Len(emitted)}
          /\ client_pc' = "send"
       \/ /\ client_pc' = "Err(write_wav)"
          /\ UNCHANGED files
    /\ UNCHANGED <<stream, produced, relay, buffer, received, emitted, attempts, served>>
    /\ UNCHANGED vars

\* what send_wav can meet
SendOutcomes == {"read_error", "transport_error", "success", "non_success"}

\* send_wav and the rest of the loop body, for one outcome: fs::read(..)? ;
\* send().await? ; the status is printed; remove_file(..)? ; buffer.clear()
SendResult(outcome) ==
    \/ /\ outcome = "read_error"
       /\ client_pc' = "Err(read)"
       /\ UNCHANGED <<attempts, files, buffer>>
    \/ /\ outcome = "transport_error"
       /\ attempts' = Append(attempts, outcome)
       /\ client_pc' = "Err(send)"
       /\ UNCHANGED <<files, buffer>>
    \/ /\ outcome \in {"success", "non_success"}
       /\ attempts' = Append(attempts, outcome)
       /\ \/ /\ files' = files \ {Len(emitted)}
             /\ buffer' = <<>>
             /\ client_pc' = "recv"
          \/ /\ client_pc' = "Err(remove_file)"
             /\ UNCHANGED <<files, buffer>>

\* send_wav(&filename).await? against a server left open
SendWav ==
    /\ client_pc = "send"
    /\ \E outcome \in SendOutcomes : SendResult(outcome)
    /\ UNCHANGED <<stream, produced, relay, received, emitted, served>>
    /\ UNCHANGED vars

\* (mutant of SendWavPost) the form carries a system_key part as well
SendWavPostWithKey(t) ==
    /\ client_pc = "send"
    /\ \E f \in Files, k \in ConfigKeys :
         f.riff /\ ReadMultipartOf(t, Some(f), Some(k))
    /\ client_pc' = "await"
    /\ served' = Append(served, t)
    /\ UNCHANGED <<stream, produced, relay, buffer, received, emitted, files, attempts>>

\* send_wav posts Form::new().part("file", part), the WAV that write_wav made
\* with the device's spec, and upload_audio task t reads the request
SendWavPost(t) ==
    /\ client_pc = "send"
    /\ \E f \in Files : f.riff /\ ReadMultipartOf(t, Some(f), None)
    /\ client_pc' = "await"
    /\ served' = Append(served, t)
    /\ UNCHANGED <<stream, produced, relay, buffer, received, emitted, files, attempts>>

\* send().await returns the response of the task that served the request
SendWavResponse ==
    /\ client_pc = "await"
    /\ req[served[Len(served)]].pc = "done"
    /\ SendResult(IF req[served[Len(served)]].status = OK
                  THEN "success" ELSE "non_success")
    /\ UNCHANGED <<stream, produced, relay, received, emitted, served>>
    /\ UNCHANGED vars

\* send_wav ends on an error of its own: the file cannot be read, or the
\* connection fails before a response
SendWavError ==
    /\ \/ client_pc = "send" /\ SendResult("read_error")
       \/ client_pc \in {"send", "await"} /\ SendResult("transport_error")
    /\ UNCHANGED <<stream, produced, relay, received, emitted, served>>
    /\ UNCHANGED vars

\* both programs started
Start == Init /\ ClientInit

ClientNext ==
    \/ TrySend
    \/ DropStream
    \/ Recv
    \/ RecvClosed
    \/ WriteWav
    \/ SendWav

SpecClient == Start /\ [][ClientNext]_allvars

\* ---------------------------------------------------------------- server
Next ==
    \/ \E t \in Tasks :
         \/ ReadMultipart(t) /\ UNCHANGED cvars
         \/ AcquireLock(t) /\ UNCHANGED cvars
         \/ TouchLastReceived(t) /\ UNCHANGED cvars
         \/ TranscribeWav(t) /\ UNCHANGED cvars
         \/ WhisperFull(t) /\ UNCHANGED cvars
         \/ SelectSummary(t) /\ UNCHANGED cvars
         \/ SummarizeText(t) /\ UNCHANGED cvars
         \/ StoreSummary(t) /\ UNCHANGED cvars
         \/ PostWebhook(t) /\ UNCHANGED cvars
    \/ FlushSelect /\ UNCHANGED cvars
    \/ FlushRow /\ UNCHANGED cvars
    \/ AdvanceTime /\ UNCHANGED cvars

Spec == Start /\ [][Next]_allvars

\* the request handlers alone: every interleaving of the upload tasks, with
\* flush_task and the clock at rest (neither touches the mutex or a request)
NextUploads ==
    \E t \in Tasks :
        \/ ReadMultipart(t) /\ UNCHANGED cvars
        \/ AcquireLock(t) /\ UNCHANGED cvars
        \/ TouchLastReceived(t) /\ UNCHANGED cvars
        \/ TranscribeWav(t) /\ UNCHANGED cvars
        \/ WhisperFull(t) /\ UNCHANGED cvars
        \/ SelectSummary(t) /\ UNCHANGED cvars
        \/ SummarizeText(t) /\ UNCHANGED cvars
        \/ StoreSummary(t) /\ UNCHANGED cvars
        \/ PostWebhook(t) /\ UNCHANGED cvars

SpecUploads == Start /\ [][NextUploads]_allvars

\* a request of another sender, which supplies the key of a configured system
KeyedUpload(t) ==
    \E f \in Files, k \in ConfigKeys : ReadMultipartOf(t, Some(f), Some(k))

\* client and server together while the stream plays: the client's uploads
\* are read by the server's tasks, next to the requests of a sender that
\* supplies the key
NextSystem ==
    \/ TrySend
    \/ Recv
    \/ WriteWav
    \/ \E t \in Tasks : SendWavPost(t)
    \/ SendWavResponse
    \/ SendWavError
    \/ \E t \in Tasks :
         \/ KeyedUpload(t) /\ UNCHANGED cvars
         \/ AcquireLock(t) /\ UNCHANGED cvars
         \/ TouchLastReceived(t) /\ UNCHANGED cvars
         \/ TranscribeWav(t) /\ UNCHANGED cvars
         \/ WhisperFull(t) /\ UNCHANGED cvars
         \/ SelectSummary(t) /\ UNCHANGED cvars
         \/ SummarizeText(t) /\ UNCHANGED cvars
         \/ StoreSummary(t) /\ UNCHANGED cvars
         \/ PostWebhook(t) /\ UNCHANGED cvars

SpecSystem == Start /\ [][NextSystem]_allvars

\* a step of upload_audio past the reading of the request
HandlerStep(t) ==
    \/ AcquireLock(t)
    \/ TouchLastReceived(t)
    \/ TranscribeWav(t)
    \/ WhisperFull(t)
    \/ SelectSummary(t)
    \/ SummarizeText(t)
    \/ StoreSummary(t)
    \/ PostWebhook(t)

\* the runtime polls every ready task, and every awaited call (database,
\* inference, completion API, webhook) returns
FairUploads ==
    SpecUploads /\ \A t \in Tasks : WF_allvars(HandlerStep(t) /\ UNCHANGED cvars)

\* ================================================================ claims

\* task t holds the whisper mutex: from state.lock() to drop(s) or a return
HoldsLock(t) == req[t].pc \in {"touch", "transcribe", "infer"}
\* task t is inside transcribe_wav
InTranscribe(t) == req[t].pc \in {"transcribe", "infer"}
\* a merge of task t is in flight: the summary is read, not yet written back
InMerge(t) == req[t].pc \in {"summarize", "store"}
SameKey(t, u) == req[t].system_key = req[u].system_key
\* task t takes a step
Steps(t) == req'[t] /= req[t]
\* the sweeper sets the summary of key k to empty in this step
Clears(k) == rows' /= rows /\ db[k].summary /= <<>> /\ db'[k].summary = <<>>

\* C1: at every instant at most one upload task is between acquiring and
\* releasing the inference-context lock (so at most one is inside
\* transcribe_wav), whatever the keys of the uploads; the lock names its holder.
C1_OneTranscription ==
    /\ \A t, u \in Tasks : HoldsLock(t) /\ HoldsLock(u) => t = u
    /\ \A t, u \in Tasks : InTranscribe(t) /\ InTranscribe(u) => t = u
    /\ \A t \in Tasks : HoldsLock(t) <=> lock = t

\* C1 witness: one upload runs the inference while another, of a different
\* key, waits for the lock
C1_Witness ==
    \E t, u \in Tasks :
        /\ req[t].pc = "infer" /\ req[u].pc = "lock"
        /\ ~SameKey(t, u)

\* C2: for every SourceKey at most one merge is in flight: no two uploads of
\* the same key are both between reading the summary and writing it back.
C2_OneMergePerKey ==
    \A t, u \in Tasks : InMerge(t) /\ InMerge(u) /\ SameKey(t, u) => t = u

\* C3: merges of one key serialize, no update is lost: the summary a merge
\* replaces on write-back is the summary its prompt was built from.
C3_MergesSerialize ==
    [][\A t \in Tasks, k \in StateKeys :
          (req[t].pc = "store" /\ Steps(t) /\ req[t].system_key = Some(k))
              => req[t].current_summary = db[k].summary]_vars

\* C4: when the Summarizer returns an error the request changes no summary
\* (the table is as before the call), posts no webhook and is answered with
\* the server-error status.
C4_FailedMergeKeepsState ==
    /\ [][\A t \in Tasks :
            (req[t].pc = "summarize" /\ req'[t].pc = "done")
                => /\ req'[t].status = INTERNAL_SERVER_ERROR
                   /\ db' = db
                   /\ webhooks' = webhooks]_vars
    /\ [](\A t \in Tasks :
            (req[t].pc = "done" /\ req[t].status = INTERNAL_SERVER_ERROR)
                => webhooks[t] = <<>>)

\* C4 witness: a Summarizer error has been answered while the key holds a
\* summary of an earlier upload
C4_Witness ==
    \E t \in Tasks, k \in ConfigKeys :
        /\ req[t].pc = "done" /\ req[t].status = INTERNAL_SERVER_ERROR
        /\ api_calls[t] /= <<>>
        /\ req[t].system_key = Some(k)
        /\ db[k].summary /= <<>>

\* C5: an upload answered with success has replaced the summary of its key by
\* the Summarizer's result, and posts the webhook exactly once with that
\* stored summary.
C5_SuccessStoresAndNotifies ==
    [][\A t \in Tasks, k \in StateKeys :
          /\ (req[t].pc = "store" /\ Steps(t) /\ req[t].system_key = Some(k))
                => db'[k].summary = req[t].sum
          /\ (req[t].pc = "webhook" /\ Steps(t))
                => /\ req'[t].status = OK
                   /\ webhooks'[t] = <<Replace(webhook_template, PhSummary, req[t].sum)>>]_vars

\* the update template with both placeholders filled in at once
RECURSIVE Render(_, _, _)
Render(template, summary, transcription) ==
    IF template = <<>> THEN <<>>
    ELSE (CASE Head(template) = PhSummary -> summary
            [] Head(template) = PhTranscription -> transcription
            [] OTHER -> <<Head(template)>>)
         \o Render(Tail(template), summary, transcription)

\* C6: an upload that reaches summarization makes exactly one Summarizer
\* call; on an empty summary its prompt is the initial template with the
\* transcript filled in, otherwise the update template holding the existing
\* summary and the transcript.
C6_PromptByState ==
    \A t \in Tasks :
        /\ Len(api_calls[t]) <= 1
        /\ req[t].pc \in {"store", "webhook"} => Len(api_calls[t]) = 1
        /\ req[t].pc \in {"idle", "lock", "touch", "transcribe", "infer",
                           "select", "summarize"} => api_calls[t] = <<>>
        /\ req[t].pc \in {"store", "webhook"} =>
             /\ Contains(api_calls[t][1], req[t].transcription)
             /\ IF req[t].current_summary = <<>>
                THEN api_calls[t][1] =
                         Render(initial_prompt, PhSummary, req[t].transcription)
                ELSE /\ api_calls[t][1] =
                          Render(update_prompt, req[t].current_summary, req[t].transcription)
                     /\ Contains(api_calls[t][1], req[t].current_summary)

\* the audio of task t is a WAV that is not mono 16 kHz
BadFormat(t) ==
    \E d \in req'[t].data : d.riff /\ (d.channels /= 1 \/ d.sample_rate /= 16000)

\* C7: an upload of audio that is not mono 16 kHz changes no field of any
\* SourceState, runs no inference, and the format check answers it with the
\* client-error status.
C7_BadFormatNoEffect ==
    [][\A t \in Tasks :
          (BadFormat(t) /\ Steps(t))
              => /\ db' = db
                 /\ inferences'[t] = 0
                 /\ (req[t].pc = "transcribe" => req'[t].status = BAD_REQUEST)]_vars

\* the request of task t lacks the audio, lacks the key, or names a key with
\* no state row or no configured prompts
Unusable(t) ==
    /\ req'[t].pc /= "idle"
    /\ \/ req'[t].data = None
       \/ req'[t].system_key = None
       \/ \E k \in RequestKeys \ (StateKeys \cap ConfigKeys) : req'[t].system_key = Some(k)

\* C8: a request without audio, without key or with an unknown key is
\* rejected with the client-error status before the engine runs and before
\* any SourceState changes (a request cut short by a failing UPDATE aside).
C8_UnusableRejected ==
    [][\A t \in Tasks :
          (Unusable(t) /\ Steps(t))
              => /\ db' = db
                 /\ inferences'[t] = 0
                 /\ (req'[t].pc = "done" /\ req[t].pc /= "touch"
                        => req'[t].status = BAD_REQUEST)]_vars

\* C9: whenever the sweeper sets a key's summary to empty, now - last_activity
\* of that key is then at least the threshold.
C9_ClearsOnlyStale ==
    [][\A k \in StateKeys :
          Clears(k) => now - db[k].last_received >= FlushAfter]_vars

\* C10: the sweeper never clears a key's summary while a merge of that key is
\* in flight.
C10_NoClearDuringMerge ==
    [][\A k \in StateKeys, t \in Tasks :
          Clears(k) => ~(InMerge(t) /\ req[t].system_key = Some(k))]_vars

\* ------------------------------------------------- server claims, continued

\* C15: an upload that ends on the failure of an upstream dependency (the
\* UPDATE of last_received, the inference, the SELECT of a configured key's
\* summary, the completion API) is answered with the server-error status.
C15_DependencyFailureIs500 ==
    [][\A t \in Tasks :
          (/\ req'[t].pc = "done"
           /\ \/ req[t].pc \in {"touch", "infer", "summarize"}
              \/ /\ req[t].pc = "select"
                 /\ \E k \in StateKeys \cap ConfigKeys : req[t].system_key = Some(k))
              => req'[t].status = INTERNAL_SERVER_ERROR]_vars

\* C16: when the summary returned by a successful summarization is stored,
\* the key's summary is non-empty; and a summary goes from non-empty to empty
\* only in a step of the sweeper.
C16_SuccessIsHasSummary ==
    [][/\ \A t \in Tasks, k \in StateKeys :
            (/\ req[t].pc = "store" /\ req'[t].pc = "webhook"
             /\ req[t].system_key = Some(k)
             /\ db'[k].summary = req[t].sum) => db'[k].summary /= <<>>
       /\ \A k \in StateKeys :
            (db[k].summary /= <<>> /\ db'[k].summary = <<>>) => rows' /= rows]_vars

\* C17: the last_activity of a key has left its bootstrap value only if an
\* upload for that key has been answered with success or is still in flight:
\* an upload that was rejected or failed has not advanced it.
C17_OnlySuccessAdvances ==
    \A k \in StateKeys :
        db[k].last_received > 0 =>
            \E t \in Tasks :
                /\ req[t].system_key = Some(k)
                /\ req[t].status = OK \/ req[t].pc \notin {"idle", "done"}

\* a step of flush_task
SweeperStep == rows' /= rows \/ flush_pc' /= flush_pc

\* C18: the keys of the table are those of the bootstrap in every state, one
\* row per key; a step of the sweeper changes at most the summary of one key,
\* to empty, leaves every last_activity and every other key as it was, and
\* posts no webhook and no completion request.
C18_KeysFixedSweepOnlyClears ==
    /\ [](DOMAIN db = StateKeys)
    /\ [][SweeperStep =>
            /\ \A k \in StateKeys :
                  /\ db'[k].last_received = db[k].last_received
                  /\ db'[k].summary \in {db[k].summary, <<>>}
            /\ \A k, j \in StateKeys : (db'[k] /= db[k] /\ db'[j] /= db[j]) => k = j
            /\ webhooks' = webhooks /\ api_calls' = api_calls
            /\ req' = req /\ lock' = lock]_vars

\* C18 witness: the sweeper has cleared the stale key while the key of a
\* finished upload keeps its summary and its last_activity
C18_Witness ==
    /\ flush_pc = "tick" /\ now = FlushAfter
    /\ db["old"].summary = <<>> /\ db["old"].last_received = 0
    /\ db["s1"].summary /= <<>>
    /\ \E t \in Tasks : req[t].status = OK

\* C19: the mutex is held only between its acquisition and the end of the
\* transcription, whatever path the handler leaves by; so, the awaited calls
\* returning, every upload that waits for the mutex gets it and every upload
\* under way is answered.
C19_EveryUploadAnswered ==
    /\ [](\A t \in Tasks : lock = t => HoldsLock(t))
    /\ \A t \in Tasks : (req[t].pc = "lock") ~> HoldsLock(t)
    /\ \A t \in Tasks : (req[t].pc \notin {"idle", "done"}) ~> (req[t].pc = "done")

\* C19 witness: an upload was answered with an error while it held the mutex
\* (the mutex is free again) and another upload waits to take it
C19_Witness ==
    \E t, u \in Tasks :
        /\ req[t].pc = "done" /\ req[t].status = INTERNAL_SERVER_ERROR
        /\ req[t].system_key /= None /\ inferences[t] = 0 /\ api_calls[t] = <<>>
        /\ req[u].pc = "lock"
        /\ lock = 0

\* ------------------------------------------------------- client claims

\* send_wav has made one more POST in this step
NewAttempt == Len(attempts') = Len(attempts) + 1
LastAttempt == attempts'[Len(attempts')]

\* C11: for a threshold of ChunkSamples, after N samples received the
\* accumulator has emitted exactly N \div ChunkSamples chunks, each of
\* exactly ChunkSamples samples; between iterations the buffer holds fewer
\* than ChunkSamples samples and is empty right after an emission.
C11_ChunksExact ==
    /\ Len(emitted) = received \div ChunkSamples
    /\ \A i \in 1..Len(emitted) : Len(emitted[i]) = ChunkSamples
    /\ client_pc = "recv" =>
          /\ Len(buffer) < ChunkSamples
          /\ Len(buffer) = received % ChunkSamples
    /\ client_pc \in {"write", "send", "await"} => buffer = emitted[Len(emitted)]

\* C11 witness: two chunks emitted and uploaded, the buffer empty again
C11_Witness ==
    /\ Len(emitted) = 2
    /\ client_pc = "recv" /\ buffer = <<>>
    /\ received = 2 * ChunkSamples

\* C12: the callback never waits on the consumer: while the stream plays,
\* try_send of the next sample can always be taken, whatever batch_and_send
\* is doing; the relay never holds more than its capacity (so a sample
\* offered to a full relay is dropped).
C12_CallbackNeverWaits ==
    /\ Len(relay) <= RelayCapacity
    /\ (Running /\ stream = "playing" /\ produced < MaxSamples) => ENABLED TrySend

\* C12 witness: the relay is full and a sample has been dropped while the
\* consumer is suspended in an upload
C12_Witness ==
    /\ Len(relay) = RelayCapacity
    /\ client_pc = "send"
    /\ produced > received + Len(relay)

\* C13: a chunk gets at most one transmission attempt, and a failed attempt
\* (non-success response or transport error) is only logged: the loop goes on
\* to receive samples (a failing remove_file aside).
C13_FailureOnlyLogged ==
    [][NewAttempt =>
          /\ Len(attempts') <= Len(emitted')
          /\ (LastAttempt \in {"non_success", "transport_error"}
                 /\ client_pc' /= "Err(remove_file)") => client_pc' = "recv"]_allvars

\* C14: after an upload attempt, whatever its outcome, the chunk file is gone
\* (a failing remove_file aside).
C14_FileRemoved ==
    [][(NewAttempt /\ client_pc' /= "Err(remove_file)") => files' = {}]_allvars

\* ------------------------------------------------- client and server claims

\* the tasks that read a request of the client
ServedTasks == { served[i] : i \in 1..Len(served) }

\* C20: every request of the client carries the audio and no system_key, so
\* the task that reads it answers with the client-error status without taking
\* the mutex, running the engine, calling the completion API or posting a
\* webhook; no client upload is ever answered with success, and the step that
\* serves it leaves every row of the table as it was.
C20_ClientUploadsRejected ==
    /\ [](\A t \in ServedTasks :
            /\ req[t].data /= None /\ req[t].system_key = None
            /\ req[t].pc = "done" /\ req[t].status = BAD_REQUEST
            /\ lock /= t
            /\ inferences[t] = 0 /\ api_calls[t] = <<>> /\ webhooks[t] = <<>>)
    /\ [](\A i \in 1..Len(attempts) : attempts[i] /= "success")
    /\ [][(served' /= served \/ \E t \in ServedTasks : Steps(t)) =>
            /\ db' = db /\ lock' = lock
            /\ inferences' = inferences
            /\ api_calls' = api_calls /\ webhooks' = webhooks]_allvars

\* C20 witness: the client has had its upload refused and goes on receiving,
\* while the upload of a sender that supplies the key was answered with success
C20_Witness ==
    /\ Len(served) = 1 /\ attempts = <<"non_success">>
    /\ client_pc = "recv" /\ buffer = <<>> /\ files = {}
    /\ \E u \in Tasks : req[u].status = OK /\ webhooks[u] /= <<>>

====
